---- MODULE Spec2Model ----
(***************************************************************************)
(* Character_LCD_RGB_I2C (adafruit_character_lcd/character_lcd_rgb_i2c.py) *)
(* The constructor acquires pin handles from an MCP23017 expander, keeps   *)
(* five of them as buttons and hands ten to the base RGB LCD driver.  The  *)
(* five button properties return "not <handle>.value".                     *)
(***************************************************************************)
EXTENDS Integers, Sequences, FiniteSets, TLC

VARIABLES phase, error, geometry, buttons, getPinLog, superArgs,
          pinDirection, level, ncalls, result

vars == <<phase, error, geometry, buttons, getPinLog, superArgs,
          pinDirection, level, ncalls, result>>

(* ---------------------------------------------------------------------- *)
(* Bounds and finite domains                                              *)
(* ---------------------------------------------------------------------- *)

\* Property evaluations followed, over all driver instances.
MaxCalls == 2

\* Buttons held down (pins low) at the same time, over all boards.
MaxPressed == 2

\* Two driver instances; instance d is built on I2C bus d, whose expander
\* chip is chip d.
Drivers == {1, 2}

Chip(d) == d

Chips == {Chip(d) : d \in Drivers}

\* Display geometries a caller may pass (line 77 passes 16, 2).
ColumnChoices == {-1, 0, 16}

LineChoices == {0, 2}

\* Expander pin indices of an MCP23017.
PinIndices == 0 .. 15

\* The attribute names of the five button handles (lines 89-93).
ButtonAttrs == {"_left_button", "_up_button", "_down_button",
                "_right_button", "_select_button"}

(* ---------------------------------------------------------------------- *)
(* Pin handles                                                            *)
(* ---------------------------------------------------------------------- *)

\* mcp.get_pin(index) on the expander of chip c: a handle naming the pin.
get_pin(c, index) == [chip |-> c, pin |-> index]

\* An attribute that was never assigned.
Unbound == [chip |-> 0, pin |-> 0 - 1]

\* The pins whose electrical level the model follows: the button pins.
ButtonPins == {4, 3, 2, 1, 0}

(* ---------------------------------------------------------------------- *)
(* Name resolution at line 87                                             *)
(* ---------------------------------------------------------------------- *)

\* Names bound at module level (lines 56-63).
ModuleGlobals == {"digitalio", "Character_LCD_RGB", "__version__", "__repo__",
                  "Character_LCD_RGB_I2C"}

\* Names bound in __init__'s frame once line 86 has run.
InitLocals == {"self", "i2c", "columns", "lines", "MCP23017"}

\* The name line 87 calls.
CalledName == "MCP2317"

\* Python resolves a name in the frame, then the module (no builtin has
\* this name).
Resolves(name) == name \in InitLocals \cup ModuleGlobals

(* ---------------------------------------------------------------------- *)
(* The base driver's constructor (character_lcd.py, not in this file)     *)
(* ---------------------------------------------------------------------- *)

\* Character_LCD_RGB.__init__(rs, en, d4, d5, d6, d7, columns, lines,
\* red, green, blue, read_write): rejects a non-positive geometry, else
\* drives every pin it was given as an output.
Character_LCD_RGB_init(args) ==
    IF args[7] <= 0 \/ args[8] <= 0
    THEN [error |-> "ConfigurationError", outputs |-> {}]
    ELSE [error |-> "none",
          outputs |-> {args[i].pin : i \in (1 .. 12) \ {7, 8}}]

(* ---------------------------------------------------------------------- *)
(* __init__, lines 89-109: the statements after the expander is made      *)
(* ---------------------------------------------------------------------- *)

\* Lines 89-93: the five button attributes.
ButtonBindings(c) ==
    [a \in ButtonAttrs |->
        CASE a = "_left_button"   -> get_pin(c, 4)
          [] a = "_up_button"     -> get_pin(c, 3)
          [] a = "_down_button"   -> get_pin(c, 2)
          [] a = "_right_button"  -> get_pin(c, 1)
          [] a = "_select_button" -> get_pin(c, 0)]

\* Lines 98-109: the positional arguments of super().__init__.
SuperArguments(c, columns, lines) ==
    << get_pin(c, 15), get_pin(c, 13), get_pin(c, 12), get_pin(c, 11),
       get_pin(c, 10), get_pin(c, 9), columns, lines,
       get_pin(c, 6), get_pin(c, 7), get_pin(c, 8), get_pin(c, 14) >>

\* The get_pin calls of lines 89-109 in evaluation order.
GetPinCalls == <<4, 3, 2, 1, 0, 15, 13, 12, 11, 10, 9, 6, 7, 8, 14>>

\* Lines 89-109 run on expander chip c: the object they leave behind.  No
\* statement sets the direction of a button pin; the base constructor sets
\* the direction of the pins it receives.
InitBody(c, columns, lines) ==
    LET args == SuperArguments(c, columns, lines)
        base == Character_LCD_RGB_init(args)
    IN  [phase     |-> IF base.error = "none" THEN "initialized" ELSE "raised",
         error     |-> base.error,
         buttons   |-> ButtonBindings(c),
         getPinLog |-> GetPinCalls,
         superArgs |-> args,
         direction |-> [p \in PinIndices |->
                          IF p \in base.outputs THEN "output" ELSE "default"]]

\* The object before any statement of __init__ has run.
Fresh ==
    [phase     |-> "absent",
     error     |-> "none",
     buttons   |-> [a \in ButtonAttrs |-> Unbound],
     getPinLog |-> << >>,
     superArgs |-> << >>,
     direction |-> [p \in PinIndices |-> "default"]]

\* __init__(self, i2c, columns, lines), lines 80-109, on bus/chip c.  Line
\* 86 binds MCP23017; line 87 calls CalledName, and an unresolved name
\* raises NameError before any later statement runs.
__init__(c, columns, lines) ==
    IF ~Resolves(CalledName)
    THEN [Fresh EXCEPT !.phase = "raised", !.error = "NameError"]
    ELSE InitBody(c, columns, lines)

(* ---------------------------------------------------------------------- *)
(* The button properties, lines 112-220                                   *)
(* ---------------------------------------------------------------------- *)

\* <handle>.value: one read of the pin through the expander.  The bus
\* transaction either delivers the pin's level or raises TransportError.
Value(h, fails) ==
    [handle |-> h,
     res    |-> IF fails THEN "TransportError"
                ELSE IF level[h.chip][h.pin] THEN "high" ELSE "low"]

\* "return not <expr>" where <expr> performed the read ev: an exception of
\* the read leaves the property before "not" is applied.
ReturnNot(self, ev) ==
    IF ev.res = "TransportError"
    THEN [outcome |-> "raise", value |-> "none", error |-> "TransportError",
          reads |-> <<ev>>, writes |-> << >>,
          attrs |-> buttons[self], getPin |-> << >>]
    ELSE [outcome |-> "return",
          value   |-> IF ev.res = "high" THEN "False" ELSE "True",
          error   |-> "none",
          reads |-> <<ev>>, writes |-> << >>,
          attrs |-> buttons[self], getPin |-> << >>]

\* A left_button that reads a handle kept once for all instances (a class
\* attribute) instead of self's own.
left_button_shared(self, fails) ==
    ReturnNot(self, Value(buttons[1]["_left_button"], fails))

\* Line 132.
left_button(self, fails) ==
    ReturnNot(self, Value(buttons[self]["_left_button"], fails))

\* An up_button that forgets the "not".
up_button_raw(self, fails) ==
    LET r == ReturnNot(self, Value(buttons[self]["_up_button"], fails))
    IN  IF r.outcome = "return"
        THEN [r EXCEPT !.value = IF @ = "True" THEN "False" ELSE "True"]
        ELSE r

\* Line 154.
up_button(self, fails) ==
    ReturnNot(self, Value(buttons[self]["_up_button"], fails))

\* A down_button that answers from its previous result when it has one.
down_button_cached(self, fails) ==
    IF result[self].prop = "down_button" /\ result[self].outcome = "return"
    THEN [outcome |-> "return", value |-> result[self].value,
          error |-> "none", reads |-> << >>, writes |-> << >>,
          attrs |-> buttons[self], getPin |-> << >>]
    ELSE ReturnNot(self, Value(buttons[self]["_down_button"], fails))

\* Line 176.
down_button(self, fails) ==
    ReturnNot(self, Value(buttons[self]["_down_button"], fails))

\* A right_button that asks the expander for its pin again on every call.
right_button_reacquire(self, fails) ==
    LET h == get_pin(Chip(self), 1)
        r == ReturnNot(self, Value(h, fails))
    IN  [r EXCEPT !.attrs = [@ EXCEPT !["_right_button"] = h],
                  !.getPin = <<1>>]

\* Line 198.
right_button(self, fails) ==
    ReturnNot(self, Value(buttons[self]["_right_button"], fails))

\* A select_button that catches the read's exception and reports "not
\* pressed".
select_button_swallow(self, fails) ==
    LET r == ReturnNot(self, Value(buttons[self]["_select_button"], fails))
    IN  IF r.outcome = "raise"
        THEN [r EXCEPT !.outcome = "return", !.value = "False",
                       !.error = "none"]
        ELSE r

\* Line 220.
select_button(self, fails) ==
    ReturnNot(self, Value(buttons[self]["_select_button"], fails))

\* The handle attribute each property reads.
AttrOf(prop) ==
    CASE prop = "left_button"   -> "_left_button"
      [] prop = "up_button"     -> "_up_button"
      [] prop = "down_button"   -> "_down_button"
      [] prop = "right_button"  -> "_right_button"
      [] prop = "select_button" -> "_select_button"

Properties == {"left_button", "up_button", "down_button", "right_button",
               "select_button"}

NoResult ==
    [prop |-> "none", outcome |-> "none", value |-> "none", error |-> "none",
     reads |-> << >>, writes |-> << >>]

(* ---------------------------------------------------------------------- *)
(* Actions                                                                *)
(* ---------------------------------------------------------------------- *)

\* lcd = Character_LCD_RGB_I2C(i2c, columns, lines) for instance d.
Construct(d) ==
    /\ phase[d] = "absent"
    /\ \E columns \in ColumnChoices, lines \in LineChoices :
         LET obj == __init__(Chip(d), columns, lines)
         IN  /\ phase' = [phase EXCEPT ![d] = obj.phase]
             /\ error' = [error EXCEPT ![d] = obj.error]
             /\ geometry' = [geometry EXCEPT ![d] = <<columns, lines>>]
             /\ buttons' = [buttons EXCEPT ![d] = obj.buttons]
             /\ getPinLog' = [getPinLog EXCEPT ![d] = obj.getPinLog]
             /\ superArgs' = [superArgs EXCEPT ![d] = obj.superArgs]
             /\ pinDirection' = [pinDirection EXCEPT ![d] = obj.direction]
    /\ UNCHANGED <<level, ncalls, result>>

TotalCalls == ncalls[1] + ncalls[2]

\* A caller evaluates property prop of instance d, with r what it did.
Call(d, prop, r) ==
    /\ phase[d] = "initialized"
    /\ TotalCalls < MaxCalls
    /\ ncalls' = [ncalls EXCEPT ![d] = @ + 1]
    /\ result' = [result EXCEPT ![d] =
                    [prop |-> prop, outcome |-> r.outcome, value |-> r.value,
                     error |-> r.error, reads |-> r.reads,
                     writes |-> r.writes]]
    /\ buttons' = [buttons EXCEPT ![d] = r.attrs]
    /\ getPinLog' = [getPinLog EXCEPT ![d] = @ \o r.getPin]
    /\ UNCHANGED <<phase, error, geometry, superArgs, pinDirection, level>>

LeftButton(d) ==
    \E fails \in BOOLEAN : Call(d, "left_button", left_button(d, fails))

UpButton(d) ==
    \E fails \in BOOLEAN : Call(d, "up_button", up_button(d, fails))

DownButton(d) ==
    \E fails \in BOOLEAN : Call(d, "down_button", down_button(d, fails))

RightButton(d) ==
    \E fails \in BOOLEAN : Call(d, "right_button", right_button(d, fails))

SelectButton(d) ==
    \E fails \in BOOLEAN : Call(d, "select_button", select_button(d, fails))

\* The buttons held down: a pressed button pulls its pin low.
Pressed == {cp \in Chips \X ButtonPins : ~level[cp[1]][cp[2]]}

\* A button on the board of chip c is pressed or released.
SetPin(c, p) ==
    /\ level[c][p] => Cardinality(Pressed) < MaxPressed
    /\ level' = [level EXCEPT ![c][p] = ~@]
    /\ UNCHANGED <<phase, error, geometry, buttons, getPinLog, superArgs,
                   pinDirection, ncalls, result>>

(* ---------------------------------------------------------------------- *)
(* Specifications                                                         *)
(* ---------------------------------------------------------------------- *)

\* No button is held: the pull-ups keep every button pin high.
Idle == [c \in Chips |-> [p \in ButtonPins |-> TRUE]]

\* The program as shipped: no instance exists yet.
Init ==
    /\ phase = [d \in Drivers |-> Fresh.phase]
    /\ error = [d \in Drivers |-> Fresh.error]
    /\ geometry = [d \in Drivers |-> << >>]
    /\ buttons = [d \in Drivers |-> Fresh.buttons]
    /\ getPinLog = [d \in Drivers |-> Fresh.getPinLog]
    /\ superArgs = [d \in Drivers |-> Fresh.superArgs]
    /\ pinDirection = [d \in Drivers |-> Fresh.direction]
    /\ level = Idle
    /\ ncalls = [d \in Drivers |-> 0]
    /\ result = [d \in Drivers |-> NoResult]

Next ==
    \/ \E d \in Drivers : Construct(d)
    \/ \E c \in Chips, p \in ButtonPins : SetPin(c, p)

Spec == Init /\ [][Next]_vars

\* The button properties as functions of self: every instance is the
\* object lines 89-109 leave behind for the geometry of line 77.
InitButtons ==
    /\ phase = [d \in Drivers |-> InitBody(Chip(d), 16, 2).phase]
    /\ error = [d \in Drivers |-> InitBody(Chip(d), 16, 2).error]
    /\ geometry = [d \in Drivers |-> <<16, 2>>]
    /\ buttons = [d \in Drivers |-> InitBody(Chip(d), 16, 2).buttons]
    /\ getPinLog = [d \in Drivers |-> InitBody(Chip(d), 16, 2).getPinLog]
    /\ superArgs = [d \in Drivers |-> InitBody(Chip(d), 16, 2).superArgs]
    /\ pinDirection = [d \in Drivers |-> InitBody(Chip(d), 16, 2).direction]
    /\ level = Idle
    /\ ncalls = [d \in Drivers |-> 0]
    /\ result = [d \in Drivers |-> NoResult]

NextButtons ==
    \/ \E d \in Drivers : LeftButton(d)
    \/ \E d \in Drivers : UpButton(d)
    \/ \E d \in Drivers : DownButton(d)
    \/ \E d \in Drivers : RightButton(d)
    \/ \E d \in Drivers : SelectButton(d)
    \/ \E c \in Chips, p \in ButtonPins : SetPin(c, p)

SpecButtons == InitButtons /\ [][NextButtons]_vars

(* ---------------------------------------------------------------------- *)
(* Vocabulary of the properties                                           *)
(* ---------------------------------------------------------------------- *)

\* The construction of instance d has ended, normally or by an exception.
Ended(d) == phase[d] # "absent"

\* Instance d was constructed with positive columns and lines.
ValidGeometry(d) ==
    /\ Len(geometry[d]) = 2
    /\ geometry[d][1] > 0
    /\ geometry[d][2] > 0

\* This step is an evaluation of a button property of instance d.
CallBy(d) == ncalls'[d] = ncalls[d] + 1

\* What "not v" is for a pin that reads v.
NotOf(v) == IF v THEN "False" ELSE "True"

\* The pin index bound to each of the fifteen roles of instance d, the five
\* buttons first and then the ten pins handed to the base driver; -1 for a
\* role that has no pin.
RolePins(d) ==
    << buttons[d]["_left_button"].pin, buttons[d]["_up_button"].pin,
       buttons[d]["_down_button"].pin, buttons[d]["_right_button"].pin,
       buttons[d]["_select_button"].pin >>
    \o [i \in 1 .. 10 |->
          IF Len(superArgs[d]) = 12
          THEN superArgs[d][IF i <= 6 THEN i ELSE i + 2].pin
          ELSE Unbound.pin]

(* ---------------------------------------------------------------------- *)
(* Properties                                                             *)
(* ---------------------------------------------------------------------- *)

\* C1: every button property that returns, returns the negation of the
\* value its bound pin reads at that call (low gives True, high gives
\* False), whatever the other pins read.
ButtonNegatesPin ==
    [][\A d \in Drivers :
          (CallBy(d) /\ result'[d].outcome = "return") =>
             LET h == buttons[d][AttrOf(result'[d].prop)]
             IN  result'[d].value = NotOf(level[h.chip][h.pin])]_vars

\* C1 witness: left_button returned True while its pin 4 was low and another
\* button pin of the same expander was low too.
ButtonNegatesPinWitness ==
    /\ result[1].prop = "left_button"
    /\ result[1].value = "True"
    /\ ~level[1][4]
    /\ ~level[1][0]

\* C2: after every construction with a valid geometry the five button
\* attributes hold the handles of pins 4, 3, 2, 1, 0 and the base driver
\* was given the handles of pins 15, 13, 12, 11, 10, 9, then columns and
\* lines, then the handles of pins 6, 7, 8, 14.
PinAssignmentOnEveryConstruction ==
    \A d \in Drivers :
       (Ended(d) /\ ValidGeometry(d)) =>
          /\ buttons[d]["_left_button"] = [chip |-> Chip(d), pin |-> 4]
          /\ buttons[d]["_up_button"] = [chip |-> Chip(d), pin |-> 3]
          /\ buttons[d]["_down_button"] = [chip |-> Chip(d), pin |-> 2]
          /\ buttons[d]["_right_button"] = [chip |-> Chip(d), pin |-> 1]
          /\ buttons[d]["_select_button"] = [chip |-> Chip(d), pin |-> 0]
          /\ Len(superArgs[d]) = 12
          /\ <<superArgs[d][1].pin, superArgs[d][2].pin, superArgs[d][3].pin,
               superArgs[d][4].pin, superArgs[d][5].pin, superArgs[d][6].pin>>
                = <<15, 13, 12, 11, 10, 9>>
          /\ <<superArgs[d][7], superArgs[d][8]>> = geometry[d]
          /\ <<superArgs[d][9].pin, superArgs[d][10].pin, superArgs[d][11].pin,
               superArgs[d][12].pin>> = <<6, 7, 8, 14>>

\* C3: a construction with positive columns and lines never fails: it ends
\* initialized, without an error, with the five button handles bound and
\* the base driver constructed.
ConstructionNeverFails ==
    \A d \in Drivers :
       (Ended(d) /\ ValidGeometry(d)) =>
          /\ phase[d] = "initialized"
          /\ error[d] = "none"
          /\ \A a \in ButtonAttrs : buttons[d][a] # Unbound
          /\ superArgs[d] # << >>

\* C4: a construction with columns <= 0 or lines <= 0 ends in
\* ConfigurationError and yields no initialized driver.
BadGeometryRaisesConfigurationError ==
    \A d \in Drivers :
       (Ended(d) /\ ~ValidGeometry(d)) =>
          /\ error[d] = "ConfigurationError"
          /\ phase[d] # "initialized"

\* C5: when a construction with a valid geometry has ended, the constructor
\* has configured each of the button pins 4, 3, 2, 1, 0 as an input.
ButtonPinsConfiguredAsInputs ==
    \A d \in Drivers :
       (Ended(d) /\ ValidGeometry(d)) =>
          \A p \in {4, 3, 2, 1, 0} : pinDirection[d][p] = "input"

ButtonReadIsPureQuery ==
    [][\A d \in Drivers :
          CallBy(d) =>
             LET r == result'[d]
                 h == buttons[d][AttrOf(r.prop)]
             IN  /\ Len(r.reads) = 1
                 /\ r.reads[1].handle = h
                 /\ r.reads[1].res \in
                       {"TransportError",
                        IF level[h.chip][h.pin] THEN "high" ELSE "low"}
                 /\ r.writes = << >>
                 /\ buttons' = buttons
                 /\ pinDirection' = pinDirection
                 /\ level' = level]_vars

\* C7 witness: a second evaluation on instance 1 read its pin again and
\* returned True.
ButtonReadIsPureQueryWitness ==
    /\ ncalls[1] = 2
    /\ result[1].outcome = "return"
    /\ result[1].value = "True"
    /\ Len(result[1].reads) = 1

\* C8: on an initialized driver no step changes the handle bound to a
\* button attribute, and no step calls get_pin again.
BindingsNeverChange ==
    [][\A d \in Drivers :
          phase[d] = "initialized" =>
             /\ buttons'[d] = buttons[d]
             /\ getPinLog'[d] = getPinLog[d]]_vars

\* C8 witness: after two evaluations on instance 2, right_button among
\* them, the attribute still holds pin 1 and get_pin was called fifteen
\* times in all.
BindingsNeverChangeWitness ==
    /\ ncalls[2] = 2
    /\ result[2].prop = "right_button"
    /\ buttons[2]["_right_button"] = [chip |-> 2, pin |-> 1]
    /\ Len(getPinLog[2]) = 15

\* C9: when the pin read of an evaluation raises TransportError, the
\* evaluation raises that same error, returns no value, has read once only
\* and leaves the bindings alone; and an evaluation that follows a failed
\* one and whose read succeeds returns the negation of the pin's level.
TransportErrorPropagates ==
    [][\A d \in Drivers :
          CallBy(d) =>
             LET r == result'[d]
                 h == buttons[d][AttrOf(r.prop)]
             IN  /\ (r.reads # << >> /\ r.reads[1].res = "TransportError") =>
                       /\ r.outcome = "raise"
                       /\ r.error = "TransportError"
                       /\ r.value = "none"
                       /\ Len(r.reads) = 1
                       /\ buttons'[d] = buttons[d]
                 /\ (result[d].outcome = "raise" /\ r.reads # << >>
                       /\ r.reads[1].res # "TransportError") =>
                       /\ r.outcome = "return"
                       /\ r.value = NotOf(level[h.chip][h.pin])]_vars

\* C9 witness: select_button on instance 1 raised TransportError.
TransportErrorPropagatesWitness ==
    /\ result[1].prop = "select_button"
    /\ result[1].outcome = "raise"
    /\ result[1].error = "TransportError"

\* C10: an evaluation on one instance reads only pins of that instance's
\* own expander, returns the negation of that expander's pin, and leaves the
\* other instance's bindings, call count and last result as they were; a
\* level change on one expander changes no instance's bindings or results.
InstancesIndependent ==
    [][\A d \in Drivers : \A o \in Drivers \ {d} :
          /\ CallBy(d) =>
                LET r == result'[d]
                    p == buttons[d][AttrOf(r.prop)].pin
                IN  /\ \A i \in 1 .. Len(r.reads) :
                          r.reads[i].handle.chip = Chip(d)
                    /\ r.outcome = "return" =>
                          r.value = NotOf(level[Chip(d)][p])
                    /\ result'[o] = result[o]
                    /\ buttons'[o] = buttons[o]
                    /\ ncalls'[o] = ncalls[o]
          /\ level'[Chip(o)] # level[Chip(o)] =>
                /\ result' = result
                /\ buttons' = buttons
                /\ level'[Chip(d)] = level[Chip(d)]]_vars

\* C10 witness: left_button was evaluated on both instances while pin 4 was
\* low on expander 1 and high on expander 2, and the two results differ.
InstancesIndependentWitness ==
    /\ result[1].prop = "left_button"
    /\ result[2].prop = "left_button"
    /\ result[1].value = "True"
    /\ result[2].value = "False"
    /\ ~level[1][4]
    /\ level[2][4]

====
